---- MODULE Spec2Model ----
(***************************************************************************)
(* A model of the rating backend of warsaw-pool-ranking (src/backend):     *)
(* the recomputation cycle of ProcessingService (build a fresh SQLite      *)
(* store at "<db>.tmp", then rename it over the published store), the      *)
(* refresh triggers that start cycles, the readers of the published store, *)
(* and the rating pipeline the cycle drives (recency weights, period       *)
(* windows, the Bradley-Terry MM solver and the blending of scores).       *)
(*                                                                         *)
(* Reals (f64 in the source) are fixed-point integers: the real x is the   *)
(* integer x * ONE, rounded towards minus infinity.  Times are integers,   *)
(* DayUnits of them to a day; the clock starts at 0, so dates in the past  *)
(* are negative.                                                           *)
(***************************************************************************)
EXTENDS Integers, Sequences, FiniteSets, TLC

(***************************************************************************)
(* Bounds of the model.                                                    *)
(***************************************************************************)
\* fixed-point scale: the number of units in 1.0
ONE == 1000
\* time units in one day (NaiveDateTime has sub-day resolution)
DayUnits == 2
\* the clock (Utc::now) advances at most to this reading
MaxNow == 1
\* refresh triggers accepted in one behaviour
MaxCycles == 2

(***************************************************************************)
(* Program constants.                                                      *)
(***************************************************************************)
HALF_LIFE_DAYS == 1095
starter_rating == 500
DaysPerYear == 365
RatingFloor == 0
RatingCeiling == 2000
FargoScale == 100

(***************************************************************************)
(* Fixed-point arithmetic standing for the f64 operations of the source.   *)
(***************************************************************************)
Max2(a, b) == IF a >= b THEN a ELSE b
Min2(a, b) == IF a <= b THEN a ELSE b
Abs(a) == IF a >= 0 THEN a ELSE -a

\* the real number n as fixed point
Fx(n) == n * ONE
\* a / b of two fixed-point numbers
FDiv(a, b) == (a * ONE) \div b
\* a * b of two fixed-point numbers
FMul(a, b) == (a * b) \div ONE

\* std::f64::consts::LN_2
Ln2 == (693147 * ONE) \div 1000000

RECURSIVE Pow2(_)
Pow2(k) == IF k <= 0 THEN 1 ELSE 2 * Pow2(k - 1)

\* exp on [0, ln 2): its Taylor polynomial of degree 6
ExpFrac(r) ==
    LET t2 == (r * r) \div (2 * ONE)
        t3 == (t2 * r) \div (3 * ONE)
        t4 == (t3 * r) \div (4 * ONE)
        t5 == (t4 * r) \div (5 * ONE)
        t6 == (t5 * r) \div (6 * ONE)
    IN  ONE + r + t2 + t3 + t4 + t5 + t6

\* f64::exp: x = k ln 2 + r with 0 <= r < ln 2, exp x = 2^k exp r
Exp(x) ==
    LET k == x \div Ln2
        r == x - k * Ln2
        e == ExpFrac(r)
    IN  IF k >= 0 THEN e * Pow2(k) ELSE e \div Pow2(-k)

\* y = m 2^k with 1 <= m < 2, as <<m, k>>
RECURSIVE LnNorm(_, _)
LnNorm(y, k) ==
    IF y >= 2 * ONE THEN LnNorm(y \div 2, k + 1)
    ELSE IF y < ONE THEN LnNorm(y * 2, k - 1)
    ELSE <<y, k>>

\* the value standing for ln 0 = -inf
LnZero == -(30 * ONE)

\* f64::ln: ln y = k ln 2 + ln m, ln m = 2 atanh((m - 1) / (m + 1))
Ln(y) ==
    IF y <= 0 THEN LnZero
    ELSE LET nk == LnNorm(y, 0)
             m == nk[1]
             z == ((m - ONE) * ONE) \div (m + ONE)
             z2 == (z * z) \div ONE
             z3 == (z * z2) \div ONE
             z5 == (z3 * z2) \div ONE
             z7 == (z5 * z2) \div ONE
         IN  nk[2] * Ln2 + 2 * (z + z3 \div 3 + z5 \div 5 + z7 \div 7)

(***************************************************************************)
(* Sequences.                                                              *)
(***************************************************************************)
Range(s) == {s[k] : k \in DOMAIN s}

\* the elements of a finite set of integers in ascending order
RECURSIVE Ascending(_)
Ascending(S) ==
    IF S = {} THEN <<>>
    ELSE LET m == CHOOSE x \in S : \A y \in S : x <= y
         IN  <<m>> \o Ascending(S \ {m})

\* f[1] + ... + f[n]
RECURSIVE SumTo(_, _)
SumTo(f, n) == IF n <= 0 THEN 0 ELSE f[n] + SumTo(f, n - 1)

\* the largest of floor and f[1], ..., f[n]
RECURSIVE MaxTo(_, _, _)
MaxTo(f, n, floor) == IF n <= 0 THEN floor ELSE Max2(f[n], MaxTo(f, n - 1, floor))

\* a function on 1..n as the sequence of its values, each evaluated once
AsSeq(f) == f \o <<>>

\* the elements s[k] with keep[k], lo <= k <= hi, in the order of s; the
\* range is halved to keep the evaluation shallow
RECURSIVE Pick(_, _, _, _)
Pick(s, keep, lo, hi) ==
    IF lo > hi THEN <<>>
    ELSE IF lo = hi THEN (IF keep[lo] THEN <<s[lo]>> ELSE <<>>)
    ELSE LET mid == (lo + hi) \div 2
         IN  Pick(s, keep, lo, mid) \o Pick(s, keep, mid + 1, hi)

SelectAt(s, keep) == Pick(s, keep, 1, Len(s))

(***************************************************************************)
(* config/settings.rs: RatingSettings and its default.                     *)
(***************************************************************************)
\* the value of years standing for None ("All Time")
NoYears == 0 - 1

RatingPeriod(name, years) == [name |-> name, years |-> years]

\* convergence_tolerance = 1e-6 is rounded up to the smallest positive
\* fixed-point value
RatingSettingsDefault ==
    [ starter_rating        |-> Fx(starter_rating),
      virtual_games_weight  |-> Fx(5),
      min_ranked_games      |-> 50,
      established_games     |-> 200,
      convergence_tolerance |-> Max2(1, ONE \div 1000000),
      max_iterations        |-> 100,
      periods               |-> << RatingPeriod("all", NoYears), RatingPeriod("1y", 1),
                                   RatingPeriod("2y", 2), RatingPeriod("3y", 3),
                                   RatingPeriod("4y", 4), RatingPeriod("5y", 5) >> ]

\* configurations a caller may hand to ProcessingService::new: the fields of
\* RatingSettings are public and new takes any value of them
ShortPeriods == << RatingPeriod("all", NoYears), RatingPeriod("1y", 1) >>

\* the blend starts at two games
LowThreshold ==
    [RatingSettingsDefault EXCEPT !.min_ranked_games = 2, !.periods = ShortPeriods]

\* the iteration cap is one
OneIteration ==
    [RatingSettingsDefault EXCEPT !.min_ranked_games = 2, !.max_iterations = 1,
                                  !.periods = ShortPeriods]

\* a starter rating above the clamp
HighStarter ==
    [RatingSettingsDefault EXCEPT !.starter_rating = Fx(RatingCeiling) + Fx(starter_rating),
                                  !.periods = ShortPeriods]

\* no period at all
NoPeriods == [RatingSettingsDefault EXCEPT !.periods = <<>>]

\* no virtual game, and a cap of four iterations
NoAnchor ==
    [RatingSettingsDefault EXCEPT !.virtual_games_weight = 0, !.min_ranked_games = 2,
                                  !.max_iterations = 4, !.periods = ShortPeriods]

\* established_games is zero
ZeroEstablished ==
    [RatingSettingsDefault EXCEPT !.min_ranked_games = 0, !.established_games = 0,
                                  !.periods = ShortPeriods]

(***************************************************************************)
(* rating/weighting.rs                                                     *)
(***************************************************************************)
\* (an age without the maximum with 0: negative for a game in the future)
calculate_age_days_signed(game_date, current_date) ==
    (current_date - game_date) \div DayUnits

\* Duration::num_days is whole days; the maximum with 0 makes the rounding
\* direction of a negative duration immaterial
calculate_age_days(game_date, current_date) ==
    Max2((current_date - game_date) \div DayUnits, 0)

\* exp(-(ln 2 / HALF_LIFE_DAYS) * age_days); the product is taken before the
\* quotient, since ln 2 / 1095 is below the fixed-point resolution
apply_exponential_decay(age_days) ==
    Exp(-((Ln2 * age_days) \div HALF_LIFE_DAYS))

calculate_weight(game_date, current_date) ==
    apply_exponential_decay(calculate_age_days(game_date, current_date))

\* (a weighter that leaves the games as they are)
apply_weights_to_games_unweighted(games, current_date) == games

apply_weights_to_games(games, current_date) ==
    AsSeq([k \in 1..Len(games) |->
              [games[k] EXCEPT !.weight = calculate_weight(games[k].date, current_date)]])

(***************************************************************************)
(* rating/types.rs                                                         *)
(***************************************************************************)
\* (tiers whose boundary values fall in the lower tier)
from_games_played_late(games) ==
    IF games <= 10 THEN "Unranked"
    ELSE IF games <= 50 THEN "Provisional"
    ELSE IF games <= 200 THEN "Emerging"
    ELSE "Established"

from_games_played(games) ==
    IF games < 10 THEN "Unranked"
    ELSE IF games < 50 THEN "Provisional"
    ELSE IF games < 200 THEN "Emerging"
    ELSE "Established"

as_str(level) ==
    CASE level = "Unranked" -> "unranked"
      [] level = "Provisional" -> "provisional"
      [] level = "Emerging" -> "emerging"
      [] level = "Established" -> "established"

(***************************************************************************)
(* rating/bradley_terry.rs                                                 *)
(***************************************************************************)
\* games.iter().flat_map(|g| vec![g.winner_id, g.loser_id])
flat_ids(games) ==
    AsSeq([k \in 1..(2 * Len(games)) |->
        IF k % 2 = 1 THEN games[(k + 1) \div 2].winner_id
                        ELSE games[k \div 2].loser_id])

\* Vec::sort_unstable on integers: every value, with its multiplicity, ascending
RECURSIVE sort_from(_, _)
sort_from(s, values) ==
    IF values = {} THEN <<>>
    ELSE LET m == CHOOSE x \in values : \A y \in values : x <= y
             c == Cardinality({k \in DOMAIN s : s[k] = m})
         IN  AsSeq([k \in 1..c |-> m]) \o sort_from(s, values \ {m})

sort_unstable(s) == sort_from(s, Range(s))

\* Vec::dedup: drops every element equal to its predecessor
dedup(s) == SelectAt(s, AsSeq([k \in 1..Len(s) |-> k = 1 \/ s[k] # s[k - 1]]))

extract_player_ids(games) == dedup(sort_unstable(flat_ids(games)))

\* player_ids.iter().enumerate(): id -> dense index (1-based here)
player_to_idx(player_ids) ==
    [id \in Range(player_ids) |-> CHOOSE k \in DOMAIN player_ids : player_ids[k] = id]

count_games_per_player(games) ==
    [id \in Range(flat_ids(games)) |->
        Cardinality({k \in DOMAIN games : games[k].winner_id = id})
        + Cardinality({k \in DOMAIN games : games[k].loser_id = id})]

\* (an accumulator that credits the win to the loser)
add_game_to_loser(game, idx, acc) ==
    LET i == idx[game.winner_id]
        j == idx[game.loser_id]
        w == game.weight
        m1 == [acc.comparison_matrix EXCEPT ![i][j] = @ + w]
        m2 == [m1 EXCEPT ![j][i] = @ + w]
    IN  [comparison_matrix |-> m2, wins |-> [acc.wins EXCEPT ![j] = @ + w]]

\* the body of the loop of build_comparison_data for one game
add_game(game, idx, acc) ==
    LET i == idx[game.winner_id]
        j == idx[game.loser_id]
        w == game.weight
        m1 == [acc.comparison_matrix EXCEPT ![i][j] = @ + w]
        m2 == [m1 EXCEPT ![j][i] = @ + w]
    IN  [comparison_matrix |-> m2, wins |-> [acc.wins EXCEPT ![i] = @ + w]]

\* the loop over games[lo..hi], in order (the range is halved to keep the
\* evaluation shallow; the test on `first` makes it a value before its use)
RECURSIVE add_games(_, _, _, _, _)
add_games(games, idx, acc, lo, hi) ==
    IF lo > hi THEN acc
    ELSE IF lo = hi THEN add_game(games[lo], idx, acc)
    ELSE LET mid == (lo + hi) \div 2
             first == add_games(games, idx, acc, lo, mid)
         IN  IF first = first THEN add_games(games, idx, first, mid + 1, hi) ELSE acc

build_comparison_data(games, idx, n_players) ==
    add_games(games, idx,
        [comparison_matrix |-> AsSeq([i \in 1..n_players |-> AsSeq([j \in 1..n_players |-> 0])]),
         wins |-> AsSeq([i \in 1..n_players |-> 0])],
        1, Len(games))

\* the denominator of the MM update of competitor i: the comparisons with
\* every other competitor, then the virtual games against gamma = 1.0
mm_denominator(i, log_gamma, comparison_matrix, n_players, config) ==
    LET gamma_i == Exp(log_gamma[i])
        term == AsSeq([j \in 1..n_players |->
                    IF i # j /\ comparison_matrix[i][j] > 0
                    THEN FDiv(comparison_matrix[i][j], gamma_i + Exp(log_gamma[j]))
                    ELSE 0])
    IN  SumTo(term, n_players) + FDiv(config.virtual_games_weight, gamma_i + ONE)

\* (an update that falls back to 0.0, the value new_log_gamma starts with)
mm_update_reset(i, log_gamma, comparison_matrix, wins, n_players, config) ==
    LET denominator == mm_denominator(i, log_gamma, comparison_matrix, n_players, config)
        adjusted_wins == wins[i] + config.virtual_games_weight \div 2
    IN  IF denominator > 0 THEN Ln(FDiv(adjusted_wins, denominator))
        ELSE 0

\* one competitor's MM update, before the normalisation
mm_update(i, log_gamma, comparison_matrix, wins, n_players, config) ==
    LET denominator == mm_denominator(i, log_gamma, comparison_matrix, n_players, config)
        adjusted_wins == wins[i] + config.virtual_games_weight \div 2
    IN  IF denominator > 0 THEN Ln(FDiv(adjusted_wins, denominator))
        ELSE log_gamma[i]

\* (a mean that is never subtracted)
mean_or_zero_skipped(v, n) == 0

\* Array1::mean: None for an empty array, which unwrap_or turns into 0
mean_or_zero(v, n) == IF n = 0 THEN 0 ELSE SumTo(v, n) \div n

\* (updates in place: a competitor's update reads the values the iteration
\* has already written)
RECURSIVE mm_updates_in_place(_, _, _, _, _, _, _, _)
mm_updates_in_place(order, k, log_gamma, new_log_gamma, comparison_matrix, wins, n_players, config) ==
    IF k > Len(order) THEN new_log_gamma
    ELSE LET written == {order[m] : m \in 1..(k - 1)}
             current == AsSeq([j \in 1..n_players |->
                            IF j \in written THEN new_log_gamma[j] ELSE log_gamma[j]])
             updated == [new_log_gamma EXCEPT ![order[k]] =
                            mm_update(order[k], current, comparison_matrix, wins,
                                      n_players, config)]
         IN  IF updated = updated
             THEN mm_updates_in_place(order, k + 1, log_gamma, updated, comparison_matrix,
                                      wins, n_players, config)
             ELSE new_log_gamma

\* the loop `for i in 0..n_players` of one iteration, the competitors taken
\* in the order `order` from its k-th on: every update reads log_gamma, the
\* previous iterate, and writes its own cell of new_log_gamma
RECURSIVE mm_updates(_, _, _, _, _, _, _, _)
mm_updates(order, k, log_gamma, new_log_gamma, comparison_matrix, wins, n_players, config) ==
    IF k > Len(order) THEN new_log_gamma
    ELSE LET updated == [new_log_gamma EXCEPT ![order[k]] =
                            mm_update(order[k], log_gamma, comparison_matrix, wins,
                                      n_players, config)]
         IN  IF updated = updated
             THEN mm_updates(order, k + 1, log_gamma, updated, comparison_matrix, wins,
                             n_players, config)
             ELSE new_log_gamma

\* new_log_gamma.mapv_inplace(|x| x - mean)
normalize(new_log_gamma, n_players) ==
    LET mean == mean_or_zero(new_log_gamma, n_players)
    IN  AsSeq([i \in 1..n_players |-> new_log_gamma[i] - mean])

\* one iteration: the update of every competitor in the order of the
\* indices, then the normalisation
mm_step(log_gamma, comparison_matrix, wins, n_players, config) ==
    normalize(mm_updates(AsSeq([i \in 1..n_players |-> i]), 1, log_gamma,
                         AsSeq([i \in 1..n_players |-> 0]), comparison_matrix, wins,
                         n_players, config),
              n_players)

\* the largest change of a log-rating in one iteration
max_diff(new_log_gamma, log_gamma, n_players) ==
    MaxTo(AsSeq([i \in 1..n_players |-> Abs(new_log_gamma[i] - log_gamma[i])]), n_players, 0)

\* (a loop that runs one iteration more than the cap allows)
RECURSIVE mm_loop_overrun(_, _, _, _, _, _)
mm_loop_overrun(iteration, log_gamma, comparison_matrix, wins, n_players, config) ==
    IF iteration > config.max_iterations
    THEN [log_gamma |-> log_gamma, iterations |-> iteration, converged |-> FALSE]
    ELSE LET new_log_gamma == mm_step(log_gamma, comparison_matrix, wins, n_players, config)
         IN  IF max_diff(new_log_gamma, log_gamma, n_players) < config.convergence_tolerance
             THEN [log_gamma |-> new_log_gamma, iterations |-> iteration + 1,
                   converged |-> TRUE]
             ELSE mm_loop_overrun(iteration + 1, new_log_gamma, comparison_matrix, wins,
                                  n_players, config)

\* the loop of mm_algorithm from iteration `iteration` (0-based) on: the
\* log-ratings it ends with, the number of iterations run, and whether the
\* convergence test ended it
RECURSIVE mm_loop(_, _, _, _, _, _)
mm_loop(iteration, log_gamma, comparison_matrix, wins, n_players, config) ==
    IF iteration >= config.max_iterations
    THEN [log_gamma |-> log_gamma, iterations |-> iteration, converged |-> FALSE]
    ELSE LET new_log_gamma == mm_step(log_gamma, comparison_matrix, wins, n_players, config)
         IN  IF max_diff(new_log_gamma, log_gamma, n_players) < config.convergence_tolerance
             THEN [log_gamma |-> new_log_gamma, iterations |-> iteration + 1,
                   converged |-> TRUE]
             ELSE mm_loop(iteration + 1, new_log_gamma, comparison_matrix, wins,
                          n_players, config)

mm_algorithm(comparison_matrix, wins, n_players, config) ==
    mm_loop(0, AsSeq([i \in 1..n_players |-> 0]), comparison_matrix, wins, n_players,
            config).log_gamma

\* (a blender without the blend: the raw score from min_ranked_games on)
rating_value_unblended(log_rating, games_played, config) ==
    IF games_played < config.min_ranked_games THEN config.starter_rating
    ELSE Max2(Fx(RatingFloor),
              Min2(Fx(RatingCeiling),
                   config.starter_rating + FDiv(log_rating * FargoScale, Ln2)))

\* (a blender that trusts the solver from the first game on)
rating_value_unguarded(log_rating, games_played, config) ==
    LET raw == config.starter_rating + FDiv(log_rating * FargoScale, Ln2)
    IN  Max2(Fx(RatingFloor), Min2(Fx(RatingCeiling), raw))

\* the score of one competitor in build_player_ratings
rating_value(log_rating, games_played, config) ==
    IF games_played < config.min_ranked_games THEN config.starter_rating
    ELSE LET raw == config.starter_rating + FDiv(log_rating * FargoScale, Ln2)
             blended ==
                 IF games_played < config.established_games
                 THEN LET starter_weight ==
                              FDiv(Fx(config.established_games - games_played),
                                   Fx(config.established_games))
                          ml_weight == ONE - starter_weight
                      IN  FMul(starter_weight, config.starter_rating) + FMul(ml_weight, raw)
                 ELSE raw
         IN  Max2(Fx(RatingFloor), Min2(Fx(RatingCeiling), blended))

build_player_ratings(player_ids, log_ratings, games_count, config) ==
    AsSeq([idx \in 1..(Len(player_ids)) |->
        LET player_id == player_ids[idx]
                     games_played == IF player_id \in DOMAIN games_count
                                     THEN games_count[player_id] ELSE 0
                 IN  [ player_id        |-> player_id,
                       rating_type      |-> "temp",
                       rating           |-> rating_value(log_ratings[idx], games_played, config),
                       games_played     |-> games_played,
                       confidence_level |-> from_games_played(games_played) ]])

\* (a solver that reports a competitor of its own when it is given no game)
calculate_ratings_phantom(games, config) ==
    build_player_ratings(<<0>>, <<0>>, <<>>, config)

calculate_ratings(games, config) ==
    LET player_ids == extract_player_ids(games)
        n_players == Len(player_ids)
        idx == player_to_idx(player_ids)
        games_count == count_games_per_player(games)
        data == build_comparison_data(games, idx, n_players)
        log_ratings == mm_algorithm(data.comparison_matrix, data.wins, n_players, config)
    IN  build_player_ratings(player_ids, log_ratings, games_count, config)

(***************************************************************************)
(* domain/models.rs: the tournaments held by the cache.  A date string is   *)
(* <<"ts", t>> (a well-formed timestamp of the instant t), <<"empty">> (the  *)
(* empty string) or <<"garbage">> (a string no format parses); an absent     *)
(* Option<String> is <<"none">>.  An absent player id is NoneId.             *)
(***************************************************************************)
Ts(t) == <<"ts", t>>
EmptyString == <<"empty">>
Garbage == <<"garbage">>
NoneString == <<"none">>
NoneId == 0 - 1

unwrap_or_0(id) == IF id = NoneId THEN 0 ELSE id

PlayerInfo(player_id, name) == [player_id |-> player_id, name |-> name]

MatchResponse(player_a, player_b, score_a, score_b, starttime, stoptime) ==
    [ player_a |-> player_a, player_b |-> player_b, score_a |-> score_a,
      score_b |-> score_b, starttime |-> starttime, stoptime |-> stoptime ]

TournamentResponse(id, name, starttime, stoptime, matches) ==
    [ id |-> id, name |-> name, starttime |-> starttime, stoptime |-> stoptime,
      matches |-> matches ]

player_a_id(m) == unwrap_or_0(m.player_a.player_id)
player_b_id(m) == unwrap_or_0(m.player_b.player_id)

get_played_at(m) ==
    IF m.stoptime # NoneString /\ m.stoptime # EmptyString THEN m.stoptime
    ELSE IF m.starttime # EmptyString THEN m.starttime
    \* the fallback "2024-01-01T00:00:00", as an instant
    ELSE Ts(0 - (2 * DaysPerYear * DayUnits))

is_played(m) ==
    /\ player_a_id(m) > 0
    /\ player_b_id(m) > 0
    /\ m.starttime # EmptyString
    /\ (m.score_a > 0 \/ m.score_b > 0)

(***************************************************************************)
(* domain/games_expansion.rs.  A Result is [ok, value].                     *)
(***************************************************************************)
Ok(v) == [ok |-> TRUE, value |-> v]
Err(v) == [ok |-> FALSE, value |-> v]

\* each of the three formats parses the well-formed timestamps only
parse_date_string(date_str) ==
    IF date_str[1] = "ts" THEN Ok(date_str[2]) ELSE Err(0)

build_game(tournament_id, winner_id, loser_id, date) ==
    [ tournament_id |-> tournament_id, winner_id |-> winner_id,
      loser_id |-> loser_id, date |-> date, weight |-> ONE ]

create_games_for_winner(tournament_id, winner_id, loser_id, win_count, date) ==
    AsSeq([k \in 1..win_count |-> build_game(tournament_id, winner_id, loser_id, date)])

expand_match_to_games(tournament_id, m) ==
    LET date == parse_date_string(get_played_at(m))
    IN  IF ~date.ok THEN Err(<<>>)
        ELSE Ok(create_games_for_winner(tournament_id, player_a_id(m), player_b_id(m),
                                        m.score_a, date.value)
                \o create_games_for_winner(tournament_id, player_b_id(m), player_a_id(m),
                                           m.score_b, date.value))

\* the loop of expand_tournament_to_games; the first error ends it
RECURSIVE expand_matches(_, _, _)
expand_matches(tournament, acc, k) ==
    IF k > Len(tournament.matches) \/ ~acc.ok THEN acc
    ELSE IF ~is_played(tournament.matches[k]) THEN expand_matches(tournament, acc, k + 1)
    ELSE LET games == expand_match_to_games(tournament.id, tournament.matches[k])
         IN  IF games.ok
             THEN expand_matches(tournament, Ok(acc.value \o games.value), k + 1)
             ELSE Err(acc.value)

expand_tournament_to_games(tournament) == expand_matches(tournament, Ok(<<>>), 1)

(***************************************************************************)
(* database: a store is the content of one SQLite file, its four tables as *)
(* sequences of rows; the id of a row is its position.                     *)
(***************************************************************************)
\* database/setup.rs: the statements of schema.sql leave every table empty
EmptyStore == [players |-> <<>>, tournaments |-> <<>>, games |-> <<>>, ratings |-> <<>>]

reset_database(store) == EmptyStore

\* the ids of the rows of `table` whose cuescore_id is the given one
find_by_cuescore_id(table, cuescore_id) ==
    {k \in DOMAIN table : table[k].cuescore_id = cuescore_id}

\* database/players.rs: the store after the call, and the id of the player's row
upsert_player(store, cuescore_id, name) ==
    LET found == find_by_cuescore_id(store.players, cuescore_id)
    IN  IF found # {}
        THEN [store |-> store, id |-> CHOOSE k \in found : \A j \in found : k <= j]
        ELSE [store |-> [store EXCEPT !.players =
                            Append(@, [cuescore_id |-> cuescore_id, name |-> name])],
              id |-> Len(store.players) + 1]

\* database/tournaments.rs
upsert_tournament(store, cuescore_id, name, start_date, end_date) ==
    LET found == find_by_cuescore_id(store.tournaments, cuescore_id)
    IN  IF found # {}
        THEN [store |-> store, id |-> CHOOSE k \in found : \A j \in found : k <= j]
        ELSE [store |-> [store EXCEPT !.tournaments =
                            Append(@, [cuescore_id |-> cuescore_id, name |-> name,
                                       start_date |-> start_date, end_date |-> end_date])],
              id |-> Len(store.tournaments) + 1]

\* database/games.rs
insert_game(store, tournament_id, first_player_id, second_player_id, first_player_score, second_player_score, date, weight) ==
    [store EXCEPT !.games =
        Append(@, [ tournament_id |-> tournament_id,
                    first_player_id |-> first_player_id,
                    second_player_id |-> second_player_id,
                    first_player_score |-> first_player_score,
                    second_player_score |-> second_player_score,
                    date |-> date, weight |-> weight ])]

\* database/ratings.rs
insert_rating(store, player_id, rating_type, rating, games_played, confidence_level, calculated_at) ==
    [store EXCEPT !.ratings =
        Append(@, [ player_id |-> player_id, rating_type |-> rating_type,
                    rating |-> rating, games_played |-> games_played,
                    confidence_level |-> confidence_level,
                    calculated_at |-> calculated_at ])]

\* the rating rows a query returns: ratings joined with players on the row id
\* (list_ranked_players, get_player_rating_detail)
query_ratings(store) ==
    AsSeq([k \in 1..(Len(store.ratings)) |->
        LET r == store.ratings[k]
                 IN  [ cuescore_id |-> store.players[r.player_id].cuescore_id,
                       rating_type |-> r.rating_type, rating |-> r.rating,
                       games_played |-> r.games_played,
                       confidence_level |-> r.confidence_level,
                       calculated_at |-> r.calculated_at ]])

(***************************************************************************)
(* services/processing.rs: the parts of a cycle that are functions of       *)
(* their arguments.                                                        *)
(***************************************************************************)
\* the names of the modelled tournaments that contain one of the keywords
\* "debel", "deblowy", "double", " par", "pary", "team" (in lower case)
DoublesNames == {"Debel Open", "Turniej par", "Team Cup"}

is_doubles_tournament(name) == name \in DoublesNames

\* the names of the modelled players that contain '/', '&' or '+', or start
\* with "team" or "6ur" (in lower case)
TeamNames == {"Adam/Bartek", "Team Kowal"}

is_team_player(name) == name \in TeamNames

\* extract_player_info: id -> the PlayerInfo of its first played match
RECURSIVE first_info(_, _, _)
first_info(matches, k, id) ==
    IF k > Len(matches) THEN PlayerInfo(NoneId, "")
    ELSE IF is_played(matches[k]) /\ matches[k].player_a.player_id = id
         THEN matches[k].player_a
    ELSE IF is_played(matches[k]) /\ matches[k].player_b.player_id = id
         THEN matches[k].player_b
    ELSE first_info(matches, k + 1, id)

extract_player_info(tournament) ==
    LET ms == tournament.matches
        ids == UNION { {ms[k].player_a.player_id, ms[k].player_b.player_id} \ {NoneId}
                       : k \in {j \in DOMAIN ms : is_played(ms[j])} }
    IN  [id \in ids |-> first_info(ms, 1, id)]

name_or_empty(player_info_map, id) ==
    IF id \in DOMAIN player_info_map THEN player_info_map[id].name ELSE ""

\* games.retain(...) of process_tournaments
retain_individuals(games, player_info_map) ==
    SelectAt(games, AsSeq([k \in 1..Len(games) |->
        /\ ~is_team_player(name_or_empty(player_info_map, games[k].winner_id))
        /\ ~is_team_player(name_or_empty(player_info_map, games[k].loser_id))]))

\* insert_tournament_to_db: both dates are parsed before the row is written
insert_tournament_to_db(store, tournament) ==
    LET start_date == parse_date_string(tournament.starttime)
        end_date == IF tournament.stoptime = NoneString THEN Ok(NoneId)
                    ELSE parse_date_string(tournament.stoptime)
    IN  IF ~start_date.ok \/ ~end_date.ok THEN Err([store |-> store, id |-> 0])
        ELSE Ok(upsert_tournament(store, tournament.id, tournament.name,
                                  start_date.value, end_date.value))

\* the body of the loop of insert_games_to_db for one game
insert_one_game(res, game, tournament_db_id, player_info_map) ==
    IF ~res.ok THEN res
    ELSE IF game.winner_id \notin DOMAIN player_info_map
            \/ game.loser_id \notin DOMAIN player_info_map
    THEN Err(res.value)
    ELSE LET first == upsert_player(res.value, unwrap_or_0(player_info_map[game.winner_id].player_id),
                                    player_info_map[game.winner_id].name)
             second == upsert_player(first.store,
                                     unwrap_or_0(player_info_map[game.loser_id].player_id),
                                     player_info_map[game.loser_id].name)
         IN  Ok(insert_game(second.store, tournament_db_id, first.id, second.id,
                            1, 0, game.date, game.weight))

\* the store after the call, or an error with the store as far as written
RECURSIVE insert_games(_, _, _, _, _, _)
insert_games(res, games, tournament_db_id, player_info_map, lo, hi) ==
    IF lo > hi THEN res
    ELSE IF lo = hi THEN insert_one_game(res, games[lo], tournament_db_id, player_info_map)
    ELSE LET mid == (lo + hi) \div 2
             first == insert_games(res, games, tournament_db_id, player_info_map, lo, mid)
         IN  IF first = first
             THEN insert_games(first, games, tournament_db_id, player_info_map, mid + 1, hi)
             ELSE res

insert_games_to_db(store, games, tournament_db_id, player_info_map) ==
    insert_games(Ok(store), games, tournament_db_id, player_info_map, 1, Len(games))

\* the body of the loop of process_tournaments for one tournament:
\* [ok, store, games], games being what the tournament adds to all_games
process_one_tournament(store, tournament) ==
    IF is_doubles_tournament(tournament.name)
    THEN [ok |-> TRUE, store |-> store, games |-> <<>>]
    ELSE LET player_info_map == extract_player_info(tournament)
             tournament_db == insert_tournament_to_db(store, tournament)
             expanded == expand_tournament_to_games(tournament)
             games == retain_individuals(expanded.value, player_info_map)
             inserted == insert_games_to_db(tournament_db.value.store, games,
                                            tournament_db.value.id, player_info_map)
         IN  IF ~tournament_db.ok THEN [ok |-> FALSE, store |-> store, games |-> <<>>]
             ELSE IF ~expanded.ok
                  THEN [ok |-> FALSE, store |-> tournament_db.value.store, games |-> <<>>]
             ELSE [ok |-> inserted.ok, store |-> inserted.value, games |-> games]

\* the window filter of process_to_db for one period, at the clock reading `at`
cutoff_date(years, at) == at - (years * DaysPerYear) * DayUnits

\* (a filter that leaves out the games dated on the cutoff)
filter_games_strict(all_expanded_games, period, at) ==
    IF period.years # NoYears
    THEN SelectAt(all_expanded_games,
                  AsSeq([k \in 1..Len(all_expanded_games) |->
                      all_expanded_games[k].date > cutoff_date(period.years, at)]))
    ELSE all_expanded_games

\* (a filter that lets every game through)
filter_games_unwindowed(all_expanded_games, period, at) == all_expanded_games

filter_games(all_expanded_games, period, at) ==
    IF period.years # NoYears
    THEN SelectAt(all_expanded_games,
                  AsSeq([k \in 1..Len(all_expanded_games) |->
                      all_expanded_games[k].date >= cutoff_date(period.years, at)]))
    ELSE all_expanded_games

convert_to_game_results(games) ==
    AsSeq([k \in 1..(Len(games)) |->
        [ winner_id |-> games[k].winner_id,
                          loser_id |-> games[k].loser_id,
                          weight |-> games[k].weight ]])

calculate_player_ratings(games, rating_type, config) ==
    LET ratings == calculate_ratings(convert_to_game_results(games), config)
    IN  AsSeq([k \in 1..(Len(ratings)) |-> [ratings[k] EXCEPT !.rating_type = rating_type]])

\* the body of the loop of save_ratings_to_db for one rating
save_one_rating(store, player_rating, rating_type, calculated_at) ==
    LET player == upsert_player(store, player_rating.player_id, "Unknown Player")
    IN  insert_rating(player.store, player.id, rating_type, player_rating.rating,
                      player_rating.games_played, as_str(player_rating.confidence_level),
                      calculated_at)

\* process_tournaments over the tournaments from position k on, then the
\* weights at the clock reading `at`: [ok, store, games]
RECURSIVE process_tournaments(_, _, _, _, _)
process_tournaments(store, tournaments, all_games, k, at) ==
    IF k > Len(tournaments)
    THEN [ok |-> TRUE, store |-> store, games |-> apply_weights_to_games(all_games, at)]
    ELSE LET done == process_one_tournament(store, tournaments[k])
         IN  IF ~done.ok THEN [ok |-> FALSE, store |-> done.store, games |-> <<>>]
             ELSE process_tournaments(done.store, tournaments, all_games \o done.games,
                                      k + 1, at)

\* save_ratings_to_db from the rating at position k on
RECURSIVE save_ratings_to_db(_, _, _, _, _)
save_ratings_to_db(store, ratings, rating_type, calculated_at, k) ==
    IF k > Len(ratings) THEN store
    ELSE save_ratings_to_db(save_one_rating(store, ratings[k], rating_type, calculated_at),
                            ratings, rating_type, calculated_at, k + 1)

(***************************************************************************)
(* The inputs: the tournaments the cache may hold.                         *)
(***************************************************************************)
Year == DaysPerYear * DayUnits

Adam == PlayerInfo(1, "Adam")
Bartek == PlayerInfo(2, "Bartek")
Cezary == PlayerInfo(3, "Cezary")

\* a recent league: one long match, half a day old at clock 0
LigaWarszawska ==
    TournamentResponse(101, "Liga Warszawska", Ts(0 - 1), NoneString,
        << MatchResponse(Adam, Bartek, 30, 25, Ts(0 - 1), NoneString) >>)

\* two matches around the one-year cutoff of clock 0: one on it, one just
\* before it; and a match that was not played
GrandPrix ==
    TournamentResponse(102, "Grand Prix", Ts(0 - Year - 1), Ts(0 - Year),
        << MatchResponse(Bartek, Cezary, 2, 1, Ts(0 - Year - 2), Ts(0 - Year)),
           MatchResponse(Adam, Cezary, 1, 2, Ts(0 - Year - 1), NoneString),
           MatchResponse(Adam, Bartek, 0, 0, Ts(0 - Year), NoneString) >>)

\* a tournament older than every bounded window
PucharPolski ==
    TournamentResponse(103, "Puchar Polski", Ts(0 - 5 * Year - 4), NoneString,
        << MatchResponse(Adam, Cezary, 0, 3, Ts(0 - 5 * Year - 4), EmptyString) >>)

\* a doubles tournament
DebelOpen ==
    TournamentResponse(104, "Debel Open", Ts(0 - 3), NoneString,
        << MatchResponse(Adam, Bartek, 4, 1, Ts(0 - 3), NoneString) >>)

\* a tournament with a well-formed match and a match whose stoptime no
\* format parses
TurniejKlubowy ==
    TournamentResponse(105, "Turniej Klubowy", Ts(0 - 2), NoneString,
        << MatchResponse(Bartek, Cezary, 2, 0, Ts(0 - 2), NoneString),
           MatchResponse(Adam, Bartek, 3, 1, Ts(0 - 2), Garbage) >>)

\* a tournament whose own starttime no format parses
TurniejBezDaty ==
    TournamentResponse(106, "Turniej bez daty", Garbage, NoneString,
        << MatchResponse(Adam, Cezary, 2, 1, Ts(0 - 2), NoneString) >>)

\* the histories of the runs of one cycle
Histories ==
    { <<>>, <<GrandPrix>>, <<LigaWarszawska>>, <<DebelOpen, PucharPolski>>,
      <<LigaWarszawska, GrandPrix>>, <<PucharPolski, LigaWarszawska>>,
      <<TurniejKlubowy>>, <<LigaWarszawska, TurniejBezDaty>> }

\* one match won 5:0
Sparing ==
    TournamentResponse(107, "Sparing", Ts(0 - 2), NoneString,
        << MatchResponse(Adam, Bartek, 5, 0, Ts(0 - 2), NoneString) >>)

Dawid == PlayerInfo(4, "Dawid")
Edward == PlayerInfo(5, "Edward")
Filip == PlayerInfo(6, "Filip")

\* three long matches: 10, 50 and 200 games for their players
Maraton ==
    TournamentResponse(108, "Maraton", Ts(0 - 4), NoneString,
        << MatchResponse(Adam, Bartek, 6, 4, Ts(0 - 4), NoneString),
           MatchResponse(Cezary, Dawid, 30, 20, Ts(0 - 4), NoneString),
           MatchResponse(Edward, Filip, 120, 80, Ts(0 - 4), NoneString) >>)

\* the same with one game less in each match: 9, 49 and 199 games
Sprint ==
    TournamentResponse(109, "Sprint", Ts(0 - 4), NoneString,
        << MatchResponse(Adam, Bartek, 5, 4, Ts(0 - 4), NoneString),
           MatchResponse(Cezary, Dawid, 29, 20, Ts(0 - 4), NoneString),
           MatchResponse(Edward, Filip, 119, 80, Ts(0 - 4), NoneString) >>)

\* two players with five games each against the same opponent: one won
\* three games three years ago and lost two lately, the other lost three
\* games three years ago and won two lately
Rewanz ==
    TournamentResponse(110, "Rewanz", Ts(0 - 3 * Year), NoneString,
        << MatchResponse(Adam, Cezary, 3, 0, Ts(0 - 3 * Year), NoneString),
           MatchResponse(Adam, Cezary, 0, 2, Ts(0 - 2), NoneString),
           MatchResponse(Bartek, Cezary, 0, 3, Ts(0 - 3 * Year), NoneString),
           MatchResponse(Bartek, Cezary, 2, 0, Ts(0 - 2), NoneString) >>)

\* single games of many ages: in the future of clock 0, on the day of the
\* run, days, a year, one and two half-lives before it
Kalendarz ==
    TournamentResponse(111, "Kalendarz", Ts(0 - 6 * Year), NoneString,
        << MatchResponse(Adam, Bartek, 1, 0, Ts(1), NoneString),
           MatchResponse(Bartek, Cezary, 1, 0, Ts(0), NoneString),
           MatchResponse(Cezary, Adam, 1, 0, Ts(0 - 1), NoneString),
           MatchResponse(Adam, Bartek, 0, 1, Ts(0 - 2), NoneString),
           MatchResponse(Adam, Cezary, 1, 0, Ts(0 - 3), NoneString),
           MatchResponse(Bartek, Cezary, 0, 1, Ts(0 - Year), NoneString),
           MatchResponse(Adam, Bartek, 1, 0, Ts(0 - 3 * Year), NoneString),
           MatchResponse(Adam, Cezary, 0, 1, Ts(0 - 3 * Year - 1), NoneString),
           MatchResponse(Bartek, Cezary, 1, 0, Ts(0 - 6 * Year), NoneString) >>)

\* a tournament with a record that names the same player on both sides
Walkower ==
    TournamentResponse(112, "Walkower", Ts(0 - 2), NoneString,
        << MatchResponse(Adam, Bartek, 2, 1, Ts(0 - 2), NoneString),
           MatchResponse(Adam, Adam, 2, 1, Ts(0 - 2), NoneString) >>)

\* a tournament with a player whose only record is against himself
Pasjans ==
    TournamentResponse(113, "Pasjans", Ts(0 - 2), NoneString,
        << MatchResponse(Adam, Bartek, 2, 1, Ts(0 - 2), NoneString),
           MatchResponse(Cezary, Cezary, 1, 0, Ts(0 - 2), NoneString) >>)

\* the runs of one cycle under the configurations: <<cache, config>>
Scenarios ==
    { <<<<Sparing>>, RatingSettingsDefault>>, <<<<Sparing>>, LowThreshold>>,
      <<<<Sparing>>, OneIteration>>, <<<<GrandPrix>>, OneIteration>>,
      <<<<GrandPrix>>, LowThreshold>>, <<<<Sparing>>, HighStarter>>,
      <<<<Sparing>>, NoPeriods>>, <<<<GrandPrix>>, ZeroEstablished>>,
      <<<<LigaWarszawska>>, RatingSettingsDefault>>,
      <<<<Maraton>>, LowThreshold>>, <<<<Sprint>>, LowThreshold>>,
      <<<<GrandPrix>>, RatingSettingsDefault>>, <<<<Rewanz>>, LowThreshold>>,
      <<<<Kalendarz>>, LowThreshold>>, <<<<Walkower>>, LowThreshold>>,
      <<<<Pasjans>>, NoAnchor>> }

\* the history of the runs of the service with overlapping cycles
RaceHistories == { <<PucharPolski>> }

(***************************************************************************)
(* The state.                                                              *)
(***************************************************************************)
VARIABLES
    now,       \* the clock, Utc::now()
    cache,     \* the parsed tournaments in the cache
    config,    \* AppConfig.rating
    fs,        \* the directory: path -> the file (inode) it names, or NoFile
    store,     \* file -> the content of the SQLite database in it
    cyc,       \* cycle -> the position and the locals of ProcessingService::run
    pool,      \* the file the server's connection pool has open, or NoFile
    lastRead,  \* the file and the rows of the latest read query
    built,     \* file -> the rows it held when the cycle that built it finished saving (history)
    hist       \* cycle -> what the cycle has done so far (history, for the properties)

vars == <<now, cache, config, fs, store, built, cyc, pool, lastRead, hist>>

Cycles == 1..MaxCycles
NoFile == 0 - 1
\* a path, the server's pool and every cycle's connection can each hold
\* one file; a cycle creates a file only when the temporary path names none
Files == 0..(MaxCycles + 1)

db_path == "warsaw_pool_ranking.db"
temp_db_path == "warsaw_pool_ranking.db.tmp"

\* the rating rows of a store as the read queries return them
NoRows == <<>>
rows_of(dir, st, path) == IF dir[path] = NoFile THEN NoRows ELSE query_ratings(st[dir[path]])

\* the store published before the first cycle of a behaviour: the rows an
\* earlier cycle saved for one player of four games
RECURSIVE save_periods(_, _, _, _)
save_periods(st, player_rating, periods, calculated_at) ==
    IF periods = <<>> THEN st
    ELSE save_periods(save_one_rating(st, player_rating, Head(periods).name, calculated_at),
                      player_rating, Tail(periods), calculated_at)

PreviousStore ==
    save_periods(EmptyStore,
                 [ player_id |-> 9, rating_type |-> "temp",
                   rating |-> RatingSettingsDefault.starter_rating,
                   games_played |-> 4, confidence_level |-> from_games_played(4) ],
                 RatingSettingsDefault.periods, 0 - 7)

NoRead == [file |-> NoFile, rows |-> NoRows, complete |-> FALSE, snapshot |-> NoRows]

IdleCycle ==
    [ pc |-> "idle", conn |-> NoFile, tournaments |-> <<>>, idx |-> 0,
      all_expanded_games |-> <<>>, period |-> 1, filtered_games |-> <<>>,
      ratings |-> <<>>, row |-> 1, calculated_at |-> 0, result |-> "none" ]

NoHistory ==
    [ start_file |-> NoFile, start_rows |-> NoRows, phases |-> <<>>,
      failed_at |-> "none", swapped |-> FALSE,
      weight_passes |-> 0, weighted_at |-> 0, cutoffs |-> <<>>,
      computed |-> <<>>, period_ids |-> <<>> ]

NotBuilt == [complete |-> FALSE, rows |-> NoRows]

\* the state when the service starts, for a set of pairs <<cache, config>>
InitOf(scenarios) ==
    /\ now = 0
    /\ \E s \in scenarios : cache = s[1] /\ config = s[2]
    /\ fs = [p \in {db_path, temp_db_path} |-> IF p = db_path THEN 0 ELSE NoFile]
    /\ store = [f \in Files |-> IF f = 0 THEN PreviousStore ELSE EmptyStore]
    /\ built = [f \in Files |-> IF f = 0
                                THEN [complete |-> TRUE, rows |-> query_ratings(PreviousStore)]
                                ELSE NotBuilt]
    /\ cyc = [c \in Cycles |-> IdleCycle]
    /\ pool = NoFile
    /\ lastRead = NoRead
    /\ hist = [c \in Cycles |-> NoHistory]

\* the program itself configures every cycle with AppConfig::new()
InitWith(histories) == InitOf(histories \X {RatingSettingsDefault})

Init == InitWith(RaceHistories)

InFlight(c) == cyc[c].pc \notin {"idle", "done", "aborted"}

\* the files some path or some open connection refers to
Referenced(dir, cy, pl) == Range(dir) \cup {cy[c].conn : c \in Cycles} \cup {pl}

\* a file no path and no connection refers to is freed by the system
Collect(table, dir, cy, pl, blank) ==
    [f \in Files |-> IF f \in Referenced(dir, cy, pl) THEN table[f] ELSE blank]

\* the file a create gets: the first free one
FreshFile == CHOOSE f \in Files :
                 /\ f \notin Referenced(fs, cyc, pool)
                 /\ \A g \in Files : g < f => g \in Referenced(fs, cyc, pool)

(* std::fs: remove_file and rename on the directory *)
remove_file(dir, path) == [dir EXCEPT ![path] = NoFile]

rename(dir, from, to) ==
    IF from = to THEN dir ELSE [dir EXCEPT ![to] = dir[from], ![from] = NoFile]

\* (a replace that is not atomic: the old file is gone when the move fails)
rename_err_torn(dir, from, to) == [dir EXCEPT ![to] = NoFile]

\* a rename that fails leaves both names as they were
rename_err(dir, from, to) == dir

\* the `?` of every fallible call of run and of process_to_db returns from run
after_error(stage) == "aborted"

(***************************************************************************)
(* The clock.                                                              *)
(***************************************************************************)
Tick ==
    /\ now < MaxNow
    /\ now' = now + 1
    /\ UNCHANGED <<cache, config, fs, store, built, cyc, pool, lastRead, hist>>

\* the runs of the whole service let time pass between the cycles only
TickIdle ==
    /\ \A c \in Cycles : ~InFlight(c)
    /\ Tick

(***************************************************************************)
(* One recomputation: ProcessingService::run, one action per step.         *)
(***************************************************************************)
\* the files a step leaves without a name and without a connection are freed
Effect(dir, st, bl, cy, pl) ==
    /\ fs' = dir
    /\ cyc' = cy
    /\ pool' = pl
    /\ store' = Collect(st, dir, cy, pl, EmptyStore)
    /\ built' = Collect(bl, dir, cy, pl, NotBuilt)

\* run returns the error of `stage`: its locals and its connection are dropped
Stopped(c, stage) ==
    [cyc EXCEPT ![c] = [IdleCycle EXCEPT !.pc = after_error(stage), !.result = "err"]]

Failed(c, stage) ==
    [hist EXCEPT ![c].failed_at = stage, ![c].phases = Append(@, "Aborted")]

\* a write through a connection whose file is no longer the one the path
\* names is refused by SQLite
CanWrite(c) == fs[temp_db_path] = cyc[c].conn

\* the task admin_refresh spawns (or the `process` command) enters run in
\* slot c; the results of the tasks that have returned are dropped
admin_refresh(c) ==
    /\ ~InFlight(c)
    /\ hist' = [d \in Cycles |->
                   IF d = c
                   THEN [NoHistory EXCEPT !.start_file = fs[db_path],
                                          !.start_rows = rows_of(fs, store, db_path),
                                          !.phases = <<"Loading">>]
                   ELSE IF InFlight(d) THEN hist[d] ELSE NoHistory]
    /\ Effect(fs, store, built,
              [d \in Cycles |->
                   IF d = c THEN [IdleCycle EXCEPT !.pc = "start"]
                   ELSE IF InFlight(d) THEN cyc[d] ELSE IdleCycle],
              pool)
    /\ UNCHANGED <<now, cache, config, lastRead>>

\* processing.rs 34-36
RemoveTemp(c) ==
    /\ cyc[c].pc = "start"
    /\ Effect(IF fs[temp_db_path] # NoFile THEN remove_file(fs, temp_db_path) ELSE fs,
              store, built, [cyc EXCEPT ![c].pc = "open"], pool)
    /\ UNCHANGED <<now, cache, config, lastRead, hist>>

\* processing.rs 50-54: create_pool opens (and creates) the file, then
\* reset_database
OpenStore(c) ==
    /\ cyc[c].pc = "open"
    /\ LET exists == fs[temp_db_path] # NoFile
           f == IF exists THEN fs[temp_db_path] ELSE FreshFile
       IN  Effect([fs EXCEPT ![temp_db_path] = f],
                  [store EXCEPT ![f] = reset_database(IF exists THEN store[f] ELSE EmptyStore)],
                  [built EXCEPT ![f] = NotBuilt],
                  [cyc EXCEPT ![c].pc = "load", ![c].conn = f],
                  pool)
    /\ UNCHANGED <<now, cache, config, lastRead, hist>>

\* processing.rs 58: load_tournaments_from_cache
Load(c) ==
    /\ cyc[c].pc = "load"
    /\ cyc' = [cyc EXCEPT ![c].pc = "tournaments", ![c].tournaments = cache, ![c].idx = 0]
    /\ UNCHANGED <<now, cache, config, fs, store, built, pool, lastRead, hist>>

\* processing.rs 105-128: one iteration of the loop of process_tournaments
ProcessTournament(c) ==
    /\ cyc[c].pc = "tournaments"
    /\ cyc[c].idx < Len(cyc[c].tournaments)
    /\ LET tournament == cyc[c].tournaments[cyc[c].idx + 1]
           done == process_one_tournament(store[cyc[c].conn], tournament)
           writes == ~is_doubles_tournament(tournament.name)
       IN  IF writes /\ ~CanWrite(c)
           THEN /\ Effect(fs, store, built, Stopped(c, "tournaments"), pool)
                /\ hist' = Failed(c, "tournaments")
           ELSE IF ~done.ok
           THEN /\ Effect(fs, [store EXCEPT ![cyc[c].conn] = done.store], built,
                          Stopped(c, "tournaments"), pool)
                /\ hist' = Failed(c, "tournaments")
           ELSE /\ Effect(fs, [store EXCEPT ![cyc[c].conn] = done.store], built,
                          [cyc EXCEPT ![c].idx = @ + 1,
                                      ![c].all_expanded_games = @ \o done.games],
                          pool)
                /\ hist' = hist
    /\ UNCHANGED <<now, cache, config, lastRead>>

\* processing.rs 135: apply_time_decay_weights, after the loop
\* (with no period configured the loop of process_to_db has no iteration:
\* process_to_db returns Ok and drops its connection)
ApplyWeights(c) ==
    /\ cyc[c].pc = "tournaments"
    /\ cyc[c].idx = Len(cyc[c].tournaments)
    /\ IF Len(config.periods) > 0
       THEN /\ cyc' = [cyc EXCEPT ![c].pc = "compute", ![c].period = 1,
                                  ![c].all_expanded_games = apply_weights_to_games(@, now)]
            /\ hist' = [hist EXCEPT ![c].weight_passes = @ + 1, ![c].weighted_at = now]
            /\ UNCHANGED <<fs, store, built, pool>>
       ELSE /\ Effect(fs, store,
                      [built EXCEPT ![cyc[c].conn] =
                          [complete |-> TRUE, rows |-> query_ratings(store[cyc[c].conn])]],
                      [cyc EXCEPT ![c] = [IdleCycle EXCEPT !.pc = "rename"]], pool)
            /\ hist' = [hist EXCEPT ![c].weight_passes = @ + 1, ![c].weighted_at = now,
                                    ![c].phases = Append(@, "Publishing")]
    /\ UNCHANGED <<now, cache, config, lastRead>>

\* (a loop that skips every second period)
next_period_skipping(k) == k + 2

\* the `for period in &self.config.rating.periods` of process_to_db
next_period(k) == k + 1

\* processing.rs 69-81: the window filter and the solver for one period
\* (the configurations of the runs have at least one period)
Compute(c) ==
    /\ cyc[c].pc = "compute"
    /\ LET period == config.periods[cyc[c].period]
           filtered_games == filter_games(cyc[c].all_expanded_games, period, now)
           ratings == calculate_player_ratings(filtered_games, period.name, config)
       IN  /\ cyc' = [cyc EXCEPT ![c].pc = "save", ![c].filtered_games = filtered_games,
                                 ![c].ratings = ratings, ![c].row = 1]
           /\ hist' = [hist EXCEPT ![c].phases = Append(@, period.name),
                                   ![c].cutoffs = Append(@, now),
                                   ![c].computed = @ \o ratings,
                                   ![c].period_ids = Append(@,
                                       {filtered_games[k].winner_id : k \in 1..Len(filtered_games)}
                                       \cup {filtered_games[k].loser_id : k \in 1..Len(filtered_games)})]
    /\ UNCHANGED <<now, cache, config, fs, store, built, pool, lastRead>>

\* processing.rs 84 and 301-332: save_ratings_to_db, one rating a step; after
\* the last rating of the last period process_to_db returns and drops its
\* connection
SaveRating(c) ==
    /\ cyc[c].pc = "save"
    /\ LET me == cyc[c]
           period == config.periods[me.period]
           calculated_at == IF me.row = 1 THEN now ELSE me.calculated_at
           none == Len(me.ratings) = 0
           last == me.row >= Len(me.ratings)
           finished == last /\ next_period(me.period) > Len(config.periods)
           saved == IF none THEN store[me.conn]
                    ELSE save_one_rating(store[me.conn], me.ratings[me.row],
                                         period.name, calculated_at)
           after == IF finished
                    THEN [me EXCEPT !.pc = "rename", !.conn = NoFile, !.filtered_games = <<>>,
                                    !.ratings = <<>>, !.all_expanded_games = <<>>,
                                    !.tournaments = <<>>]
                    ELSE IF last
                    THEN [me EXCEPT !.pc = "compute", !.period = next_period(@),
                                    !.calculated_at = calculated_at]
                    ELSE [me EXCEPT !.row = @ + 1, !.calculated_at = calculated_at]
       IN  IF ~none /\ ~CanWrite(c)
           THEN /\ Effect(fs, store, built, Stopped(c, "save"), pool)
                /\ hist' = Failed(c, "save")
           ELSE /\ Effect(fs, [store EXCEPT ![me.conn] = saved],
                          IF finished
                          THEN [built EXCEPT ![me.conn] =
                                   [complete |-> TRUE, rows |-> query_ratings(saved)]]
                          ELSE built,
                          [cyc EXCEPT ![c] = after], pool)
                /\ hist' = IF finished
                           THEN [hist EXCEPT ![c].phases = Append(@, "Publishing")]
                           ELSE hist
    /\ UNCHANGED <<now, cache, config, lastRead>>

\* processing.rs 42: the swap
Rename(c) ==
    /\ cyc[c].pc = "rename"
    /\ IF fs[temp_db_path] = NoFile
       THEN /\ Effect(rename_err(fs, temp_db_path, db_path), store, built,
                      Stopped(c, "rename"), pool)
            /\ hist' = Failed(c, "rename")
       ELSE /\ Effect(rename(fs, temp_db_path, db_path), store, built,
                      [cyc EXCEPT ![c] = [IdleCycle EXCEPT !.pc = "done", !.result = "ok"]],
                      pool)
            /\ hist' = [hist EXCEPT ![c].swapped = TRUE, ![c].phases = Append(@, "Idle")]
    /\ UNCHANGED <<now, cache, config, lastRead>>

\* the swap fails (a permission, a full disk)
RenameFail(c) ==
    /\ cyc[c].pc = "rename"
    /\ Effect(rename_err(fs, temp_db_path, db_path), store, built, Stopped(c, "rename"), pool)
    /\ hist' = Failed(c, "rename")
    /\ UNCHANGED <<now, cache, config, lastRead>>

\* an input/output or database error of the step the cycle is at:
\* remove_file, create_pool or reset_database, the cache, an insert
Fail(c) ==
    /\ \/ cyc[c].pc = "start" /\ fs[temp_db_path] # NoFile
       \/ cyc[c].pc \in {"open", "load"}
       \/ cyc[c].pc = "tournaments" /\ cyc[c].idx < Len(cyc[c].tournaments)
       \/ cyc[c].pc = "save" /\ Len(cyc[c].ratings) > 0
    /\ Effect(fs, store, built, Stopped(c, cyc[c].pc), pool)
    /\ hist' = Failed(c, cyc[c].pc)
    /\ UNCHANGED <<now, cache, config, lastRead>>

(***************************************************************************)
(* The server: its pool and its read queries.                              *)
(***************************************************************************)
\* server.rs 22-46: create_pool(db_path) at the start of the server, and
\* the pool's later replacement of its connections
ServerConnect ==
    /\ fs[db_path] # NoFile
    /\ pool # fs[db_path]
    /\ Effect(fs, store, built, cyc, fs[db_path])
    /\ UNCHANGED <<now, cache, config, lastRead, hist>>

\* a read handler: list_ranked_players through a connection of the pool
Read ==
    /\ pool # NoFile
    /\ lastRead' = [ file |-> pool, rows |-> query_ratings(store[pool]),
                     complete |-> built[pool].complete, snapshot |-> built[pool].rows ]
    /\ UNCHANGED <<now, cache, config, fs, store, built, cyc, pool, hist>>

(***************************************************************************)
(* The specifications.                                                     *)
(***************************************************************************)
CycleStep(c) ==
    \/ RemoveTemp(c)
    \/ OpenStore(c)
    \/ Load(c)
    \/ ProcessTournament(c)
    \/ ApplyWeights(c)
    \/ Compute(c)
    \/ SaveRating(c)
    \/ Rename(c)

\* the service as the code runs it: admin_refresh spawns a cycle whenever it
\* is asked to, also while another cycle is running; the refreshes of a
\* behaviour arrive before the first of its cycles has returned
Refresh(c) ==
    /\ \A d \in Cycles : cyc[d].pc \notin {"done", "aborted"}
    /\ admin_refresh(c)

Next ==
    \/ \E c \in Cycles : Refresh(c) \/ CycleStep(c) \/ Fail(c) \/ RenameFail(c)
    \/ ServerConnect
    \/ Read
    \/ TickIdle

Spec == Init /\ [][Next]_vars

\* the service when a refresh is asked for only while no cycle is in flight,
\* any number of times
RefreshWhenIdle(c) ==
    /\ \A d \in Cycles : ~InFlight(d)
    /\ admin_refresh(c)

NextSeq ==
    \/ \E c \in Cycles : RefreshWhenIdle(c) \/ CycleStep(c) \/ Fail(c) \/ RenameFail(c)
    \/ ServerConnect
    \/ Read
    \/ TickIdle

\* over either history
SpecSeq == InitWith({ <<PucharPolski>>, <<GrandPrix>> }) /\ [][NextSeq]_vars

\* one cycle that meets no error, over the larger histories, the clock
\* advancing between any two of its steps
FirstRun ==
    /\ \A d \in Cycles : cyc[d].pc = "idle"
    /\ admin_refresh(1)

NextPipe ==
    \/ FirstRun
    \/ \E c \in Cycles : CycleStep(c)
    \/ Tick

SpecPipe == InitWith(Histories) /\ [][NextPipe]_vars

\* one cycle under each configuration a caller may pass
SpecConfigured == InitOf(Scenarios) /\ [][NextPipe]_vars

(***************************************************************************)
(* api/handlers/admin.rs with its two stages: the request, the ingestion,  *)
(* then the recomputation.                                                 *)
(***************************************************************************)
\* the Authorization header of a request: the expected value, another
\* value, no header
Headers == {"Bearer secret", "Bearer wrong", "none"}

\* what the CueScore site may hold when an ingestion fetches it
Fetched == { <<PucharPolski>>, <<LigaWarszawska>> }

\* (a task that logs the error of the ingestion and goes on)
ingest_outcome_ignored(ingest_result) == "start"

\* admin.rs 28-31: the task returns on an error of the ingestion, and
\* otherwise goes on to ProcessingService::run
ingest_outcome(ingest_result) == IF ingest_result = "err" THEN "aborted" ELSE "start"

\* admin.rs 17-27: the handler answers 401 and starts nothing unless the
\* header is the expected one, and otherwise spawns the task, which begins
\* with the ingestion; a slot serves one request, and the operator sends a
\* request while no task runs
admin_refresh_request(c, header) ==
    /\ \A d \in Cycles : ~InFlight(d)
    /\ cyc[c].pc = "idle"
    /\ hist[c] = NoHistory
    /\ IF header # "Bearer secret"
       THEN /\ hist' = [hist EXCEPT ![c].failed_at = "unauthorized"]
            /\ UNCHANGED <<fs, store, built, cyc, pool>>
       ELSE /\ hist' = hist
            /\ Effect(fs, store, built, [cyc EXCEPT ![c].pc = "ingest"], pool)
    /\ UNCHANGED <<now, cache, config, lastRead>>

\* ingestion.rs 26-43 returning Ok: the parsed cache holds what was fetched;
\* admin.rs 32-34: the task enters ProcessingService::run
IngestOk(c) ==
    /\ cyc[c].pc = "ingest"
    /\ cache' \in Fetched
    /\ hist' = [hist EXCEPT ![c] = [NoHistory EXCEPT !.start_file = fs[db_path],
                                                     !.start_rows = rows_of(fs, store, db_path),
                                                     !.phases = <<"Loading">>]]
    /\ Effect(fs, store, built,
              [cyc EXCEPT ![c] = [IdleCycle EXCEPT !.pc = ingest_outcome("ok")]], pool)
    /\ UNCHANGED <<now, config, lastRead>>

\* ingestion.rs 30, 34, 38: a `?` of run returns an error (a venue page or a
\* tournament that cannot be fetched; the parsed cache is written last and
\* is left as it was)
IngestFail(c) ==
    /\ cyc[c].pc = "ingest"
    /\ hist' = [hist EXCEPT ![c].failed_at = "ingest"]
    /\ Effect(fs, store, built,
              [cyc EXCEPT ![c] = [IdleCycle EXCEPT !.pc = ingest_outcome("err"),
                                                   !.result = "err"]], pool)
    /\ UNCHANGED <<now, cache, config, lastRead>>

\* the admin endpoint used by one operator: requests with any header, one
\* task at a time, each ingesting and then recomputing
NextRefresh ==
    \/ \E c \in Cycles : \E header \in Headers : admin_refresh_request(c, header)
    \/ \E c \in Cycles : IngestOk(c) \/ IngestFail(c) \/ CycleStep(c)
    \/ ServerConnect
    \/ Read

SpecRefresh == Init /\ [][NextRefresh]_vars

(***************************************************************************)
(* The properties.                                                         *)
(***************************************************************************)
\* the rating rows as the API shows them, without the time of the computation
Shown(rows) ==
    AsSeq([k \in 1..Len(rows) |->
        [ cuescore_id |-> rows[k].cuescore_id, rating_type |-> rows[k].rating_type,
          rating |-> rows[k].rating, games_played |-> rows[k].games_played,
          confidence_level |-> rows[k].confidence_level ]])

\* the rows a cycle has computed, as the API would show them once saved
ShownComputed(ratings) ==
    AsSeq([k \in 1..Len(ratings) |->
        [ cuescore_id |-> ratings[k].player_id, rating_type |-> ratings[k].rating_type,
          rating |-> ratings[k].rating, games_played |-> ratings[k].games_played,
          confidence_level |-> as_str(ratings[k].confidence_level) ]])

Published == rows_of(fs, store, db_path)

\* cycle c takes the step that ends it with an error of a step before the swap
AbortsBeforeSwap(c) ==
    /\ cyc[c].pc \notin {"aborted", "rename"}
    /\ cyc'[c].pc = "aborted"

\* cycle c takes the step that ends it with an error of the swap
AbortsAtSwap(c) ==
    /\ cyc[c].pc = "rename"
    /\ cyc'[c].pc = "aborted"

\* cycle c takes the step that swaps
Swaps(c) ==
    /\ cyc[c].pc = "rename"
    /\ cyc'[c].pc = "done"

\* C1: every read of the published store returns the rows of one complete
\* snapshot, the rows a finished cycle had saved when it stopped writing,
\* and never the rows of a store that is still being built.
C1_ReadsSeeOneSnapshot ==
    lastRead.file # NoFile => lastRead.complete /\ lastRead.rows = lastRead.snapshot

\* C2: when a step before the swap fails, run returns the error without
\* renaming, and the published store is the one of the start of the cycle.
C2_FailureBeforeSwapKeepsPublished ==
    [][\A c \in Cycles :
          AbortsBeforeSwap(c) =>
              /\ cyc'[c].result = "err"
              /\ ~hist'[c].swapped
              /\ fs'[db_path] = hist[c].start_file
              /\ rows_of(fs', store', db_path) = hist[c].start_rows]_vars

\* C4: at most one cycle is in flight at any time.
C4_AtMostOneCycleInFlight ==
    Cardinality({c \in Cycles : InFlight(c)}) <= 1

\* C3: when the swap fails, run returns the error, and the store published
\* before the failed swap is still the published one, rows unchanged, and
\* can be queried.
C3_FailedSwapKeepsPublished ==
    [][\A c \in Cycles :
          AbortsAtSwap(c) =>
              /\ cyc'[c].result = "err"
              /\ ~hist'[c].swapped
              /\ fs[db_path] # NoFile
              /\ fs'[db_path] = fs[db_path]
              /\ rows_of(fs', store', db_path) = rows_of(fs, store, db_path)]_vars

C3_Witness ==
    \E c \in Cycles :
        /\ cyc[c].pc = "aborted"
        /\ hist[c].failed_at = "rename"
        /\ Published = hist[c].start_rows
        /\ Len(Published) > 0

\* the phases of a cycle that meets no error
PeriodNames == AsSeq([k \in 1..Len(config.periods) |-> config.periods[k].name])
FullCycle == <<"Loading">> \o PeriodNames \o <<"Publishing", "Idle">>

IsPrefix(p, q) == Len(p) <= Len(q) /\ p = SubSeq(q, 1, Len(p))

\* C5: a cycle goes through Loading, the compute of each configured period
\* in the configured order, Publishing, and back to Idle; it swaps only after
\* all of them, and a cycle that fails ends in Aborted without swapping.
C5_CyclePhases ==
    \A c \in Cycles :
        LET phases == hist[c].phases
        IN  /\ cyc[c].pc = "idle" => phases = <<>>
            /\ InFlight(c) => IsPrefix(phases, FullCycle) /\ ~hist[c].swapped
            /\ cyc[c].pc = "rename" => phases = SubSeq(FullCycle, 1, Len(FullCycle) - 1)
            /\ cyc[c].pc = "done" => phases = FullCycle /\ hist[c].swapped
            /\ cyc[c].pc = "aborted" =>
                   /\ Len(phases) >= 2
                   /\ phases[Len(phases)] = "Aborted"
                   /\ IsPrefix(SubSeq(phases, 1, Len(phases) - 1),
                               SubSeq(FullCycle, 1, Len(FullCycle) - 1))
                   /\ ~hist[c].swapped

C5_Witness ==
    /\ \E c \in Cycles : cyc[c].pc = "done" /\ hist[c].phases = FullCycle
    /\ \E c \in Cycles : cyc[c].pc = "aborted" /\ Len(hist[c].phases) > 3

\* C6: the swap of a successful cycle publishes exactly the rating rows that
\* cycle computed, and no other row.
C6_PublishedIsTheCyclesRows ==
    [][\A c \in Cycles :
          Swaps(c) =>
              Shown(rows_of(fs', store', db_path)) = ShownComputed(hist[c].computed)]_vars

\* the rows of the label of period k among rows
RowsOfPeriod(rows, k) ==
    SelectAt(Shown(rows),
             AsSeq([i \in 1..Len(rows) |-> rows[i].rating_type = config.periods[k].name]))

\* C10: calculate_ratings returns one record for each competitor of its
\* input games, and the swap of a successful cycle publishes one row for each
\* configured period and each competitor of that period's games, tagged with
\* the label of the period.
C10_OneRowPerCompetitorAndPeriod ==
    [][\A c \in Cycles :
          /\ (cyc[c].pc = "compute" /\ cyc'[c].pc = "save") =>
                 LET ids == hist'[c].period_ids[Len(hist'[c].period_ids)]
                     ratings == cyc'[c].ratings
                 IN  /\ Len(ratings) = Cardinality(ids)
                     /\ {ratings[k].player_id : k \in 1..Len(ratings)} = ids
          /\ Swaps(c) =>
                 LET rows == rows_of(fs', store', db_path)
                 IN  /\ \A k \in 1..Len(config.periods) :
                            LET mine == RowsOfPeriod(rows, k)
                            IN  /\ Len(mine) = Cardinality(hist[c].period_ids[k])
                                /\ {mine[i].cuescore_id : i \in 1..Len(mine)}
                                       = hist[c].period_ids[k]
                     /\ \A i \in 1..Len(rows) :
                            \E k \in 1..Len(config.periods) :
                                rows[i].rating_type = config.periods[k].name]_vars

\* the step of a cycle that filters the history for a period and solves it
Computes(c) == cyc[c].pc = "compute" /\ cyc'[c].pc = "save"

\* the number of positions of games that hold the game g
Copies(games, g) == Cardinality({k \in 1..Len(games) : games[k] = g})

\* C7: the weights are applied once in a cycle, to the whole history and
\* before the first period is filtered: in the solver input of every period
\* each game is a game of the weighted history, and its weight is the decay
\* of its age at the one moment of the weighting.
C7_WeightedOnceBeforeFiltering ==
    [][\A c \in Cycles :
          Computes(c) =>
              LET all == cyc[c].all_expanded_games
                  input == cyc'[c].filtered_games
              IN  /\ hist[c].weight_passes = 1
                  /\ cyc'[c].all_expanded_games = all
                  /\ \A k \in 1..Len(all) :
                         all[k].weight = calculate_weight(all[k].date, hist[c].weighted_at)
                  /\ \A k \in 1..Len(input) :
                         /\ Copies(all, input[k]) > 0
                         /\ input[k].weight
                                = calculate_weight(input[k].date, hist[c].weighted_at)]_vars

\* a later period of a cycle is being saved, its input holds a game whose
\* weight shows its age, and the clock has moved on since the weighting
C7_Witness ==
    \E c \in Cycles :
        /\ cyc[c].pc = "save"
        /\ cyc[c].period > 2
        /\ hist[c].weight_passes = 1
        /\ now > hist[c].weighted_at
        /\ \E k \in 1..Len(cyc[c].filtered_games) : cyc[c].filtered_games[k].weight < ONE

\* the window of a period at the clock reading `at`
InWindow(game, period, at) ==
    period.years = NoYears \/ game.date >= at - period.years * DaysPerYear * DayUnits

\* C8: the solver input of a period holds each game of the history dated at
\* or after now minus years*365 days as often as the history holds it, and no
\* other game; the input of the unbounded period is the whole history.
C8_WindowFilter ==
    [][\A c \in Cycles :
          Computes(c) =>
              LET all == cyc[c].all_expanded_games
                  input == cyc'[c].filtered_games
                  period == config.periods[cyc[c].period]
              IN  /\ \A k \in 1..Len(all) :
                         Copies(input, all[k])
                             = IF InWindow(all[k], period, now) THEN Copies(all, all[k]) ELSE 0
                  /\ Len(input)
                         = Cardinality({k \in 1..Len(all) : InWindow(all[k], period, now)})
                  /\ period.years = NoYears => input = all]_vars

\* a bounded period whose input holds a game dated on the cutoff and leaves
\* out a game of the history dated before it
C8_Witness ==
    \E c \in Cycles :
        /\ cyc[c].pc = "save"
        /\ LET period == config.periods[cyc[c].period]
               at == hist[c].cutoffs[Len(hist[c].cutoffs)]
           IN  /\ period.years # NoYears
               /\ \E k \in 1..Len(cyc[c].filtered_games) :
                      cyc[c].filtered_games[k].date = cutoff_date(period.years, at)
               /\ \E k \in 1..Len(cyc[c].all_expanded_games) :
                      cyc[c].all_expanded_games[k].date < cutoff_date(period.years, at)

\* the games of a history inside the window of a period
WindowOf(history, period, weighted_at, at) ==
    LET all == process_tournaments(reset_database(EmptyStore), history, <<>>, 1,
                                   weighted_at).games
    IN  SelectAt(all, AsSeq([k \in 1..Len(all) |-> InWindow(all[k], period, at)]))

\* the rows a cycle publishes for a period when it is the only configured
\* period and the cache holds the given history
AloneOver(history, period, weighted_at, at) ==
    LET loaded == process_tournaments(reset_database(EmptyStore), history, <<>>, 1,
                                      weighted_at)
        ratings == calculate_player_ratings(filter_games(loaded.games, period, at),
                                            period.name, config)
    IN  Shown(query_ratings(save_ratings_to_db(loaded.store, ratings, period.name, 0, 1)))

\* the histories that differ from the cache outside the window of a period only
SameWindow(period, weighted_at, at) ==
    {h \in Histories :
        WindowOf(h, period, weighted_at, at) = WindowOf(cache, period, weighted_at, at)}

\* C9: the rows a cycle publishes for a period are the rows that period gets
\* when it is the only configured period, over any history with the same
\* games inside the window of the period.
C9_PeriodsIndependent ==
    \A c \in Cycles :
        cyc[c].pc = "done" =>
            \A k \in 1..Len(config.periods) :
                \A h \in SameWindow(config.periods[k], hist[c].weighted_at, hist[c].cutoffs[k]) :
                    RowsOfPeriod(Published, k)
                        = AloneOver(h, config.periods[k], hist[c].weighted_at, hist[c].cutoffs[k])

\* a published period with rows that another history, with other games
\* outside the window and other row ids for the players, shares
C9_Witness ==
    \E c \in Cycles :
        /\ cyc[c].pc = "done"
        /\ \E k \in 1..Len(config.periods) :
               /\ Len(RowsOfPeriod(Published, k)) > 0
               /\ Len(RowsOfPeriod(Published, k)) < Len(RowsOfPeriod(Published, 1))
               /\ \E h \in SameWindow(config.periods[k], hist[c].weighted_at,
                                     hist[c].cutoffs[k]) : h # cache

\* a step of the cycle c itself
Moves(c) == cyc'[c] # cyc[c]

\* C11: a period with no game in its window is not an error: the solver
\* returns no rating for it, nothing is written for it, and the cycle goes on
\* to the next period, or to the swap after the last one.
C11_EmptyPeriodIsNoError ==
    [][\A c \in Cycles :
          /\ (Computes(c) /\ cyc'[c].filtered_games = <<>>) => cyc'[c].ratings = <<>>
          /\ (cyc[c].pc = "save" /\ cyc[c].ratings = <<>> /\ Moves(c)) =>
                 /\ cyc'[c].pc \in {"compute", "rename"}
                 /\ cyc'[c].pc = "rename" => cyc[c].period = Len(config.periods)
                 /\ cyc'[c].pc = "compute" =>
                        /\ cyc'[c].period = cyc[c].period + 1
                        /\ store'[cyc[c].conn].ratings = store[cyc[c].conn].ratings]_vars

\* a cycle has published the rows of its first period and none for a later
\* period, whose window held no game
C11_Witness ==
    \E c \in Cycles :
        /\ cyc[c].pc = "done"
        /\ hist[c].period_ids[1] # {}
        /\ \E k \in 2..(Len(config.periods) - 1) :
               /\ hist[c].period_ids[k] = {}
               /\ RowsOfPeriod(Published, k) = <<>>
        /\ Len(RowsOfPeriod(Published, 1)) = Cardinality(hist[c].period_ids[1])

\* C12: a match or a tournament whose date cannot be parsed is skipped and
\* never aborts the cycle: no step of the loop over the tournaments ends the
\* cycle.
C12_MalformedRecordIsSkipped ==
    [][\A c \in Cycles :
          (cyc[c].pc = "tournaments" /\ Moves(c)) => cyc'[c].pc # "aborted"]_vars

\* the configurations the spec accepts (the half-life is the constant
\* HALF_LIFE_DAYS of weighting.rs and no field of the configuration)
ValidConfiguration(settings) ==
    /\ HALF_LIFE_DAYS > 0
    /\ settings.established_games > 0
    /\ Len(settings.periods) > 0

\* C13: under a configuration with a non-positive established_games or an
\* empty period list no cycle gets past its start: none opens a store, loads,
\* computes or swaps, and no file is created or replaced.
C13_InvalidConfigurationRejected ==
    ~ValidConfiguration(config) =>
        /\ \A c \in Cycles :
               /\ cyc[c].pc \in {"idle", "start", "open", "aborted"}
               /\ cyc[c].conn = NoFile
        /\ fs[temp_db_path] = NoFile
        /\ Published = query_ratings(PreviousStore)

\* the run of the solver on the games of a period, as calculate_ratings
\* starts it: the log-ratings, the iterations run, whether it converged
Solved(games) ==
    LET results == convert_to_game_results(games)
        player_ids == extract_player_ids(results)
        n_players == Len(player_ids)
        data == build_comparison_data(results, player_to_idx(player_ids), n_players)
    IN  mm_loop(0, AsSeq([i \in 1..n_players |-> 0]), data.comparison_matrix, data.wins,
                n_players, config)

\* C14: the solver ends after at most max_iterations iterations, and when the
\* cap ends it the last iterate is the result: the period gets its ratings
\* and the cycle goes on to save them.
C14_SolverStopsAtTheCap ==
    [][\A c \in Cycles :
          (cyc[c].pc = "compute" /\ Moves(c)) =>
              LET run == Solved(cyc'[c].filtered_games)
              IN  /\ cyc'[c].pc = "save"
                  /\ run.iterations <= config.max_iterations
                  /\ ~run.converged => run.iterations = config.max_iterations
                  /\ Len(cyc'[c].ratings) = Len(run.log_gamma)]_vars

\* the ratings of a period whose solver run was ended by the cap
C14_Witness ==
    \E c \in Cycles :
        /\ cyc[c].pc = "save"
        /\ Len(cyc[c].ratings) > 1
        /\ ~Solved(cyc[c].filtered_games).converged
        /\ Solved(cyc[c].filtered_games).iterations = config.max_iterations

LogRatingOf(c, k) == Solved(cyc[c].filtered_games).log_gamma[k]

\* C16: a competitor with fewer games than min_ranked_games gets exactly the
\* starter rating, whatever log-rating the solver computed, in the ratings of
\* the period and in the published rows.
C16_FewGamesGetStarterRating ==
    /\ \A c \in Cycles :
           cyc[c].pc = "save" =>
               \A k \in 1..Len(cyc[c].ratings) :
                   cyc[c].ratings[k].games_played < config.min_ranked_games =>
                       cyc[c].ratings[k].rating = config.starter_rating
    /\ (\E c \in Cycles : cyc[c].pc = "done") =>
           \A k \in 1..Len(Published) :
               Published[k].games_played < config.min_ranked_games =>
                   Published[k].rating = config.starter_rating

\* a competitor below min_ranked_games for whom the solver computed a
\* log-rating other than 0
C16_Witness ==
    \E c \in Cycles :
        /\ cyc[c].pc = "save"
        /\ \E k \in 1..Len(cyc[c].ratings) :
               /\ cyc[c].ratings[k].games_played < config.min_ranked_games
               /\ cyc[c].ratings[k].games_played > 0
               /\ LogRatingOf(c, k) # 0
               /\ cyc[c].ratings[k].rating = config.starter_rating

\* the raw score of a log-rating, before blend and clamp
RawScore(log_rating) == config.starter_rating + FDiv(log_rating * FargoScale, Ln2)

StrictlyBetween(x, a, b) == (a < x /\ x < b) \/ (b < x /\ x < a)

\* the positions of the ratings of a period whose competitor won 5 games of
\* the period and lost none
FiveAndNil(c) ==
    {k \in 1..Len(cyc[c].ratings) :
        LET id == cyc[c].ratings[k].player_id
            games == cyc[c].filtered_games
        IN  /\ Cardinality({g \in 1..Len(games) : games[g].winner_id = id}) = 5
            /\ Cardinality({g \in 1..Len(games) : games[g].loser_id = id}) = 0}

C17_WitnessBlended ==
    \E c \in Cycles :
        /\ cyc[c].pc = "save"
        /\ config.min_ranked_games <= 5
        /\ \E k \in FiveAndNil(c) :
               /\ cyc[c].ratings[k].rating > config.starter_rating
               /\ cyc[c].ratings[k].rating < RawScore(LogRatingOf(c, k))

InRange(rating) == Fx(RatingFloor) <= rating /\ rating <= Fx(RatingCeiling)

\* C18: the score of every rating, computed or published, lies in
\* [0, 2000], for every number of games and every configuration.
C18_ScoresAreClamped ==
    /\ \A c \in Cycles :
           \A k \in 1..Len(cyc[c].ratings) : InRange(cyc[c].ratings[k].rating)
    /\ (\E c \in Cycles : cyc[c].pc = "done") =>
           \A k \in 1..Len(Published) : InRange(Published[k].rating)

\* the tier the spec gives a number of games
TierOf(games_played) ==
    IF games_played < 10 THEN "Unranked"
    ELSE IF games_played <= 49 THEN "Provisional"
    ELSE IF games_played <= 199 THEN "Emerging"
    ELSE "Established"

\* C19: the tier of every rating, computed or published, is the tier of its
\* games_played: Unranked below 10, Provisional from 10 to 49, Emerging from
\* 50 to 199, Established from 200 on.
C19_TierFollowsGamesPlayed ==
    /\ \A c \in Cycles :
           \A k \in 1..Len(cyc[c].ratings) :
               cyc[c].ratings[k].confidence_level = TierOf(cyc[c].ratings[k].games_played)
    /\ (\E c \in Cycles : cyc[c].pc = "done") =>
           \A k \in 1..Len(Published) :
               Published[k].confidence_level = as_str(TierOf(Published[k].games_played))

\* the ratings of a period with competitors of exactly 10, 50 and 200 games
C19_Witness ==
    \E c \in Cycles :
        /\ cyc[c].pc = "save"
        /\ \A n \in {10, 50, 200} :
               \E k \in 1..Len(cyc[c].ratings) :
                   /\ cyc[c].ratings[k].games_played = n
                   /\ cyc[c].ratings[k].confidence_level = TierOf(n)

\* the store published when the cycle c started was published by an earlier
\* cycle (no cycle produces the rows of PreviousStore)
StartedFromACycle(c) == hist[c].start_rows # query_ratings(PreviousStore)

\* C20: a cycle that runs on the cache and the configuration of the cycle
\* that published before it publishes the same rows, field for field, the
\* time of the computation included.
C20_SecondRunPublishesTheSameRows ==
    [][\A c \in Cycles :
          (Swaps(c) /\ StartedFromACycle(c)) =>
              rows_of(fs', store', db_path) = hist[c].start_rows]_vars

\* the number of games of `games` between the competitors a and b
GamesBetween(games, a, b) ==
    Cardinality({g \in 1..Len(games) : {games[g].winner_id, games[g].loser_id} = {a, b}})

\* the number of games of `games` the competitor a won
WinsOf(games, a) == Cardinality({g \in 1..Len(games) : games[g].winner_id = a})

\* the competitors of `games`
CompetitorsOf(games) ==
    {games[g].winner_id : g \in 1..Len(games)} \cup {games[g].loser_id : g \in 1..Len(games)}

\* a and b have identical opponents and identical game counts: as many games
\* against each competitor, and so none against each other
SameOpponents(games, a, b) ==
    /\ a # b
    /\ \A j \in CompetitorsOf(games) : GamesBetween(games, a, j) = GamesBetween(games, b, j)

\* f[lo] + ... + f[hi], the range halved to keep the evaluation shallow
RECURSIVE SumRange(_, _, _)
SumRange(f, lo, hi) ==
    IF lo > hi THEN 0
    ELSE IF lo = hi THEN f[lo]
    ELSE LET mid == (lo + hi) \div 2 IN SumRange(f, lo, mid) + SumRange(f, mid + 1, hi)

\* the weight of the games of `games` between a and b
WeightBetween(games, a, b) ==
    SumRange(AsSeq([g \in 1..Len(games) |->
                 IF {games[g].winner_id, games[g].loser_id} = {a, b} THEN games[g].weight ELSE 0]),
             1, Len(games))

\* the weight of the games of `games` the competitor a won
WeightWon(games, a) ==
    SumRange(AsSeq([g \in 1..Len(games) |->
                 IF games[g].winner_id = a THEN games[g].weight ELSE 0]),
             1, Len(games))

\* a and b also have the same weight of games against each competitor
SameWeights(games, a, b) ==
    \A j \in CompetitorsOf(games) : WeightBetween(games, a, j) = WeightBetween(games, b, j)

AgeDays(date, at) == IF date >= at THEN 0 ELSE (at - date) \div DayUnits

\* the cycle c has weighted its history
Weighted(c) == cyc[c].pc \in {"compute", "save"} /\ hist[c].weight_passes = 1

\* C22: every game gets a weight; a game dated on the reference date or in
\* its future, or less than a whole day before it, gets exactly 1.0; games
\* of the same age in whole days get the same weight, and of two games the
\* older one never gets the larger weight.
C22_WeightOfAge ==
    \A c \in Cycles :
        Weighted(c) =>
            LET all == cyc[c].all_expanded_games
                at == hist[c].weighted_at
            IN  \A g \in 1..Len(all) :
                    /\ all[g].weight > 0 /\ all[g].weight <= ONE
                    /\ AgeDays(all[g].date, at) = 0 => all[g].weight = ONE
                    /\ \A h \in 1..Len(all) :
                           AgeDays(all[g].date, at) <= AgeDays(all[h].date, at)
                               => all[g].weight >= all[h].weight

\* a weighted history with a game of the future and a game of the reference
\* instant, both of weight 1.0, two games of different dates and the same
\* age in days, and an older game of a smaller weight
C22_Witness ==
    \E c \in Cycles :
        /\ Weighted(c)
        /\ LET all == cyc[c].all_expanded_games
               at == hist[c].weighted_at
           IN  /\ \E g \in 1..Len(all) : all[g].date > at /\ all[g].weight = ONE
               /\ \E g \in 1..Len(all) : all[g].date = at /\ all[g].weight = ONE
               /\ \E g, h \in 1..Len(all) :
                      /\ all[g].date # all[h].date
                      /\ AgeDays(all[g].date, at) = AgeDays(all[h].date, at)
                      /\ AgeDays(all[g].date, at) > 0
                      /\ all[g].weight = all[h].weight
               /\ \E g, h \in 1..Len(all) :
                      /\ AgeDays(all[g].date, at) > 0
                      /\ AgeDays(all[g].date, at) < AgeDays(all[h].date, at)
                      /\ all[g].weight < ONE
                      /\ all[h].weight < all[g].weight

\* C23: every game handed to the solver, in every period and for every
\* history the cycle loads, has a winner other than its loser and a weight
\* that is not negative.
C23_SolverGamesAreWellFormed ==
    \A c \in Cycles :
        cyc[c].pc = "save" =>
            \A g \in 1..Len(cyc[c].filtered_games) :
                /\ cyc[c].filtered_games[g].winner_id # cyc[c].filtered_games[g].loser_id
                /\ cyc[c].filtered_games[g].weight >= 0

\* the accumulators build_comparison_data returns for the games of a period
ComparisonData(games) ==
    LET results == convert_to_game_results(games)
        player_ids == extract_player_ids(results)
    IN  [ player_ids |-> player_ids,
          data |-> build_comparison_data(results, player_to_idx(player_ids), Len(player_ids)) ]

\* the weight of all games
TotalWeight(games) ==
    SumRange(AsSeq([g \in 1..Len(games) |-> games[g].weight]), 1, Len(games))

\* C24: for the games of every period the comparison accumulator is
\* symmetric, C[i][j] is the weight of the games between i and j in either
\* direction, W[i] is the weight of the games i won, and the sum of W is the
\* weight of all games.
C24_ComparisonAccumulators ==
    \A c \in Cycles :
        cyc[c].pc = "save" =>
            LET games == cyc[c].filtered_games
                built_data == ComparisonData(games)
                ids == built_data.player_ids
                C == built_data.data.comparison_matrix
                W == built_data.data.wins
                n == Len(ids)
            IN  /\ \A i, j \in 1..n :
                       /\ C[i][j] = C[j][i]
                       /\ C[i][j] = WeightBetween(games, ids[i], ids[j])
                /\ \A i \in 1..n : W[i] = WeightWon(games, ids[i])
                /\ SumTo(W, n) = TotalWeight(games)

\* the iterates of the solver on the accumulators: `its` and what the loop of
\* mm_algorithm adds to it from the last of `its` on
RECURSIVE Iterates(_, _, _, _, _, _)
Iterates(iteration, its, comparison_matrix, wins, n_players, settings) ==
    IF iteration >= settings.max_iterations THEN its
    ELSE LET log_gamma == its[Len(its)]
             new_log_gamma == mm_step(log_gamma, comparison_matrix, wins, n_players, settings)
             longer == Append(its, new_log_gamma)
         IN  IF max_diff(new_log_gamma, log_gamma, n_players) < settings.convergence_tolerance
             THEN longer
             ELSE IF longer = longer
                  THEN Iterates(iteration + 1, longer, comparison_matrix, wins, n_players,
                                settings)
                  ELSE its

\* the iterates of the solver on the games of a period, the start included
IteratesOf(games) ==
    LET built_data == ComparisonData(games)
        n == Len(built_data.player_ids)
    IN  Iterates(0, <<AsSeq([i \in 1..n |-> 0])>>, built_data.data.comparison_matrix,
                 built_data.data.wins, n, config)

\* the iterations of a run whose update finds a denominator that is not
\* positive for some competitor, as pairs <<iteration, competitor>>
ZeroDenominators(games) ==
    LET built_data == ComparisonData(games)
        n == Len(built_data.player_ids)
        its == IteratesOf(games)
    IN  {p \in (1..(Len(its) - 1)) \X (1..n) :
            mm_denominator(p[2], its[p[1]], built_data.data.comparison_matrix, n, config) <= 0}

\* C25: whenever the denominator of a competitor is not positive in an
\* iteration, its value before the normalisation is its value of the previous
\* iterate and its value after it is that value less the mean; the run ends
\* with a rating for every competitor and the cycle goes on.
C25_ZeroDenominatorKeepsValue ==
    \A c \in Cycles :
        cyc[c].pc = "save" =>
            LET games == cyc[c].filtered_games
                built_data == ComparisonData(games)
                C == built_data.data.comparison_matrix
                W == built_data.data.wins
                n == Len(built_data.player_ids)
                its == IteratesOf(games)
            IN  /\ its[Len(its)] = Solved(games).log_gamma
                /\ Len(cyc[c].ratings) = n
                /\ \A p \in ZeroDenominators(games) :
                       LET prev == its[p[1]]
                           raw == AsSeq([i \in 1..n |-> mm_update(i, prev, C, W, n, config)])
                       IN  /\ raw[p[2]] = prev[p[2]]
                           /\ its[p[1] + 1][p[2]] = prev[p[2]] - mean_or_zero(raw, n)

\* a run in which a competitor without any comparison keeps, in a later
\* iteration, a value other than 0.0
C25_Witness ==
    \E c \in Cycles :
        /\ cyc[c].pc = "save"
        /\ \E p \in ZeroDenominators(cyc[c].filtered_games) :
               /\ p[1] > 1
               /\ IteratesOf(cyc[c].filtered_games)[p[1]][p[2]] # 0
        /\ Len(cyc[c].ratings) = 3

\* the largest number of competitors whose every order is tried
MaxOrdered == 3

\* the orders in which the competitors of one iteration are processed: every
\* order of up to MaxOrdered competitors, the order of the indices and its
\* reverse of more
Orders(n) ==
    IF n <= MaxOrdered THEN {AsSeq(f) : f \in Permutations(1..n)}
    ELSE {AsSeq([i \in 1..n |-> i]), AsSeq([i \in 1..n |-> n + 1 - i])}

\* C26: in every iteration of a run the result is the same in whatever order
\* the competitors are processed, each update reading the previous,
\* normalised iterate only; and the next iteration starts from the
\* normalised result of the one before it.
C26_UpdateOrderIsImmaterial ==
    \A c \in Cycles :
        cyc[c].pc = "save" =>
            LET games == cyc[c].filtered_games
                built_data == ComparisonData(games)
                C == built_data.data.comparison_matrix
                W == built_data.data.wins
                n == Len(built_data.player_ids)
                its == IteratesOf(games)
                zeros == AsSeq([i \in 1..n |-> 0])
            IN  /\ its[Len(its)] = Solved(games).log_gamma
                /\ \A p \in 1..(Len(its) - 1) :
                       /\ \A order \in Orders(n) :
                              its[p + 1]
                                  = normalize(mm_updates(order, 1, its[p], zeros, C, W, n, config), n)
                       /\ n > 0 => Abs(SumTo(its[p + 1], n)) < n

\* a run of three competitors and of more than two iterations whose first
\* iteration moves the values apart
C26_Witness ==
    \E c \in Cycles :
        /\ cyc[c].pc = "save"
        /\ LET its == IteratesOf(cyc[c].filtered_games)
           IN  /\ Len(its) > 3
               /\ Len(its[1]) = 3
               /\ Cardinality(Range(its[2])) = 3
               /\ its[3] # its[2]

\* C27: with two cycles in flight no cycle removes the temp file another
\* cycle has open, none opens (and resets) the store another cycle is
\* building, and the swap of a cycle publishes a store that was built to its
\* end and holds the rows that cycle computed, all of them and no other.
C27_CyclesBuildApart ==
    [][\A c \in Cycles :
          /\ (cyc[c].pc = "start" /\ Moves(c) /\ fs[temp_db_path] # NoFile) =>
                 \A d \in Cycles \ {c} : cyc[d].conn # fs[temp_db_path]
          /\ (cyc[c].pc = "open" /\ cyc'[c].pc = "load") =>
                 \A d \in Cycles \ {c} : cyc[d].conn # cyc'[c].conn
          /\ Swaps(c) =>
                 /\ built[fs[temp_db_path]].complete
                 /\ Shown(rows_of(fs', store', db_path)) = ShownComputed(hist[c].computed)]_vars

\* C28: once the swap of a cycle has succeeded, every read query answered
\* from then on returns the rows of the store the path names, also when it is
\* served through a connection the pool opened before the swap.
C28_ReadsAfterSwapSeeNewSnapshot ==
    [][(lastRead' # lastRead /\ \E c \in Cycles : hist[c].swapped) =>
           /\ lastRead'.file = fs[db_path]
           /\ lastRead'.rows = Published]_vars

\* C29: once a cycle has weighted its history, the games table of the store
\* it builds holds one row for each game of the history, in its order, with
\* the date of the game and the weight the solver is given for it.
C29_StoredWeightIsSolverWeight ==
    \A c \in Cycles :
        (Weighted(c) /\ cyc[c].conn # NoFile) =>
            LET all == cyc[c].all_expanded_games
                rows == store[cyc[c].conn].games
            IN  /\ Len(rows) = Len(all)
                /\ \A k \in 1..Len(all) :
                       /\ rows[k].date = all[k].date
                       /\ rows[k].weight = all[k].weight

\* the positions of ProcessingService::run
ProcessingPcs == {"start", "open", "load", "tournaments", "compute", "save", "rename", "done"}

\* C30: a request without the expected header starts nothing; the
\* recomputation of a refresh starts only from a completed ingestion; and a
\* failed ingestion ends the task, which never enters the recomputation,
\* and leaves the files, the stores and the cache as they were.
C30_ProcessingOnlyAfterIngestion ==
    [][\A c \in Cycles :
          /\ (hist'[c].failed_at = "unauthorized" /\ hist[c].failed_at # "unauthorized") =>
                 /\ cyc' = cyc
                 /\ fs' = fs /\ store' = store /\ cache' = cache
          /\ (cyc'[c].pc \in ProcessingPcs /\ cyc[c].pc \notin ProcessingPcs) =>
                 /\ cyc[c].pc = "ingest"
                 /\ cyc'[c].pc = "start"
                 /\ hist'[c].failed_at = "none"
                 /\ cache' \in Fetched
          /\ (cyc[c].pc = "ingest" /\ hist'[c].failed_at = "ingest") =>
                 /\ cyc'[c].pc = "aborted"
                 /\ cyc'[c].result = "err"
                 /\ fs' = fs /\ store' = store /\ cache' = cache
                 /\ rows_of(fs', store', db_path) = Published
          /\ hist[c].failed_at \in {"ingest", "unauthorized"} =>
                 /\ cyc[c].pc \notin ProcessingPcs
                 /\ cyc'[c].pc \notin ProcessingPcs
                 /\ hist[c].phases = <<>>]_vars

\* one request was refused, the ingestion of another failed, no recomputation
\* ran and the published store is the one of the start
C30_Witness ==
    /\ \E c \in Cycles : hist[c].failed_at = "unauthorized" /\ cyc[c].pc = "idle"
    /\ \E c \in Cycles : hist[c].failed_at = "ingest" /\ cyc[c].pc = "aborted"
    /\ fs[temp_db_path] = NoFile
    /\ Published = query_ratings(PreviousStore)
====
